---- MODULE Spec2Model ----
(***************************************************************************)
(* Model of noblox (src/noblox/src/main.rs): a command-line program that   *)
(* prompts for the path of a Roblox place/model file, decodes the file     *)
(* into a WeakDom and lists the root instances.                            *)
(*                                                                         *)
(* Strings are sequences of tokens.  A token is one character (" ", "\n",  *)
(* ".", "a"), a run of characters without dot or whitespace that is never  *)
(* split ("rbxl", "txt", ...), or BadByte, a byte that is not valid UTF-8. *)
(***************************************************************************)
EXTENDS Integers, Sequences, FiniteSets, TLC

\* ------------------------------------------------------------------ bounds
\* Number of lines stdin delivers before end of file.
MaxLines == 2
\* Largest number of top-level instances of a decoded document.
MaxTop == 2

\* ------------------------------------------------------- strings and paths
BadByte == "0xFF"
Whitespace == {" ", "\n"}

None == [some |-> FALSE]
Some(v) == [some |-> TRUE, val |-> v]

\* str::trim, main.rs:49 and :73: drops leading and trailing whitespace.
RECURSIVE TrimStart(_)
TrimStart(s) ==
    IF s # <<>> /\ Head(s) \in Whitespace THEN TrimStart(Tail(s)) ELSE s

RECURSIVE TrimEnd(_)
TrimEnd(s) ==
    IF s # <<>> /\ s[Len(s)] \in Whitespace
    THEN TrimEnd(SubSeq(s, 1, Len(s) - 1))
    ELSE s

Trim(s) == TrimEnd(TrimStart(s))

\* Whether the bytes are valid UTF-8 (Stdin::read_line and OsStr::to_str).
IsUtf8(s) == \A k \in 1..Len(s) : s[k] # BadByte

\* Index of the last "." of s, 0 when there is none.
LastDot(s) ==
    LET dots == {k \in 1..Len(s) : s[k] = "."}
    IN IF dots = {} THEN 0 ELSE CHOOSE k \in dots : \A j \in dots : j <= k

\* Path::extension, main.rs:101 and :145, of a path of one component: None
\* for the empty path, "." and "..", a name without a dot, and a name whose
\* only dot is its first character; otherwise what follows the last dot.
Extension(p) ==
    IF p = <<>> \/ p = <<".">> \/ p = <<".", ".">> THEN None
    ELSE IF LastDot(p) <= 1 THEN None
    ELSE Some(SubSeq(p, LastDot(p) + 1, Len(p)))

\* OsStr::to_str, main.rs:101 and :145.
ToStr(os) == IF IsUtf8(os) THEN Some(os) ELSE None

\* The arm of the match on the extension, main.rs:107-137 and :151-183.
MatchArm(extension) ==
    CASE extension = <<"rbxl">> -> "rbxl"
      [] extension = <<"rbxlx">> -> "rbxlx"
      [] extension = <<"rbxm">> -> "rbxm"
      [] extension = <<"rbxmx">> -> "rbxmx"
      [] OTHER -> "_"

\* ------------------------------------------------------------ the document
Instance(name, class_name, children) ==
    [name |-> name, class_name |-> class_name, children |-> children]

\* A WeakDom as the decoder returns it: the root's children in stored order
\* and the arena of instances by referent (rbx_dom_weak::WeakDom, main.rs:7).
\* The first top-level instance may own one nested Part; every referent of a
\* children sequence is in the arena.
MkDom(top, distinctNames, nested) ==
    LET n == Len(top)
        deep == MaxTop + 1
        nameOf(r) == IF distinctNames /\ r # 1 THEN "Part1" ELSE "Workspace"
        kids(r) == IF nested /\ n > 0 /\ r = top[1] THEN <<deep>> ELSE <<>>
        refs == {top[k] : k \in 1..n} \cup (IF nested /\ n > 0 THEN {deep} ELSE {})
    IN [children |-> top,
        inst |-> [r \in refs |->
                    IF r = deep THEN Instance("Part1", "Part", <<>>)
                    ELSE Instance(nameOf(r), "Folder", kids(r))]]

TopOrders(n) == {[k \in 1..n |-> k], [k \in 1..n |-> n + 1 - k]}

Doms ==
    {MkDom(top, dn, ne) :
        top \in UNION {TopOrders(n) : n \in 0..MaxTop},
        dn \in BOOLEAN, ne \in BOOLEAN}

NoDom == MkDom(<<>>, FALSE, FALSE)

\* WeakDom::get_by_ref, main.rs:31.
get_by_ref(d, referent) ==
    IF referent \in DOMAIN d.inst THEN Some(d.inst[referent]) ELSE None

\* ---------------------------------------------------------------- the files
\* What a file holds: a document in the binary encoding, a document in the
\* XML encoding, a binary document cut short, or bytes of neither encoding.
Contents ==
    {[format |-> f, dom |-> d] : f \in {"binary", "xml"}, d \in Doms}
        \cup {[format |-> f, dom |-> NoDom] : f \in {"truncated", "garbage"}}

\* The file at a path when get_dom_from_extension runs: File::open fails
\* (removed since the check, unreadable), or succeeds on some contents.
Files ==
    {[openable |-> FALSE, content |-> [format |-> "garbage", dom |-> NoDom]]}
        \cup {[openable |-> TRUE, content |-> c] : c \in Contents}

Ok(v) == [kind |-> "Ok", val |-> v]
Err(e) == [kind |-> "Err", why |-> e]

\* rbx_binary::from_reader, main.rs:190 and :198: decodes the binary encoding
\* only; anything else is a DecodeError.
rbx_binary_from_reader(content) ==
    IF content.format = "binary" THEN Ok(content.dom)
    ELSE IF content.format = "truncated" THEN Err("unexpected end of file")
    ELSE Err("unknown file header")

\* A panic of the process at a source line (unwrap on None or Err, panic!).
Panic(line, msg) == [kind |-> "panic", line |-> line, msg |-> msg]

Call(op, path) == [op |-> op, path |-> path]

\* What a decoding function returns (ret: Ok, Err or a panic) and the calls
\* it made, in order.
Decoded(ret, calls) == [ret |-> ret, calls |-> calls]

\* The same for get_dom_from_extension, with the arm of the extension match
\* it took ("none": the match was not reached).
Outcome(ret, calls, arm) == [ret |-> ret, calls |-> calls, arm |-> arm]

\* get_dom_from_binary, main.rs:188-192.
get_dom_from_binary(file_path, file) ==
    IF ~file.openable
    THEN Decoded(Panic(189, "File::open"), <<Call("File::open", file_path)>>)
    ELSE Decoded(rbx_binary_from_reader(file.content),
                 <<Call("File::open", file_path),
                   Call("rbx_binary::from_reader", file_path)>>)

\* get_dom_from_xml, main.rs:196-200: it reads with rbx_binary::from_reader.
get_dom_from_xml(file_path, file) ==
    IF ~file.openable
    THEN Decoded(Panic(197, "File::open"), <<Call("File::open", file_path)>>)
    ELSE Decoded(rbx_binary_from_reader(file.content),
                 <<Call("File::open", file_path),
                   Call("rbx_binary::from_reader", file_path)>>)

\* Path::display, main.rs:100 and :146: lossy, a byte that is not UTF-8 shows
\* as the replacement character.
Display(p) == [k \in 1..Len(p) |-> IF p[k] = BadByte THEN "U+FFFD" ELSE p[k]]

\* error_message, main.rs:147.
ErrorMessage(display) ==
    <<"An error occurred while retrieving a DOM from the given file path: ">>
        \o display

\* WrapDecode letting the decoder's error through in the message.
WrapDecodeWithCause(o, error_message, arm) ==
    IF o.ret.kind = "Ok" THEN Outcome(o.ret, o.calls, arm)
    ELSE IF o.ret.kind = "Err"
    THEN Outcome(Err(error_message \o <<": ", o.ret.why>>), o.calls, arm)
    ELSE Outcome(o.ret, o.calls, arm)

\* The inner matches of get_dom_from_extension, main.rs:154-157 (and :161-164,
\* :168-171, :175-178): Ok is passed on, any Err becomes error_message.
WrapDecode(o, error_message, arm) ==
    IF o.ret.kind = "Ok" THEN Outcome(o.ret, o.calls, arm)
    ELSE IF o.ret.kind = "Err" THEN Outcome(Err(error_message), o.calls, arm)
    ELSE Outcome(o.ret, o.calls, arm)

\* get_dom_from_extension, main.rs:144-184.
get_dom_from_extension(path_buffer, file) ==
    LET ext == Extension(path_buffer)
    IN IF ~ext.some THEN Outcome(Panic(145, "Option::unwrap"), <<>>, "none")
       ELSE IF ~ToStr(ext.val).some
       THEN Outcome(Panic(145, "Option::unwrap"), <<>>, "none")
       ELSE LET extension == ToStr(ext.val).val
                error_message == ErrorMessage(Display(path_buffer))
                arm == MatchArm(extension)
            IN CASE arm \in {"rbxl", "rbxm"} ->
                      WrapDecode(get_dom_from_binary(path_buffer, file),
                                 error_message, arm)
                 [] arm \in {"rbxlx", "rbxmx"} ->
                      WrapDecode(get_dom_from_xml(path_buffer, file),
                                 error_message, arm)
                 [] OTHER -> Outcome(Err(error_message), <<>>, arm)

\* ---------------------------------------------------------------- the stdin
\* One line as Stdin::read_line delivers it (with its newline) and what
\* Path::try_exists answers for the path it names.
Event(line, exists) == [line |-> line, exists |-> exists]

\* End of file: read_line returns Ok(0) and leaves the line empty.
Eof == Event(<<>>, "false")

FileNames ==
    {<<"a", ".", "rbxl">>, <<"a", ".", "rbxlx">>, <<"a", ".", "rbxm">>,
     <<"a", ".", "rbxmx">>, <<"a", ".", "txt">>, <<"a", ".", "RBXL">>,
     <<"a">>, <<".", "rbxl">>}

Lines ==
    {n \o <<"\n">> : n \in FileNames}
        \cup {<<" ", "a", ".", "rbxlx", " ", "\n">>}

\* The lines a user can enter: a file name (existing, missing, or not to be
\* checked), a blank line, and a line with a byte that is not UTF-8.
Events ==
    {Event(l, e) : l \in Lines, e \in {"true", "false", "err"}}
        \cup {Event(<<"\n">>, "false"),
              Event(<<"a", ".", BadByte, "\n">>, "false")}

\* read_stdin::<String>, main.rs:39-60: read_line fails on a line that is not
\* UTF-8; the line is trimmed; parsing a String never fails.
read_stdin(ev) ==
    IF ~IsUtf8(ev.line) THEN Err(<<"Could not parse the input into type T.">>)
    ELSE Ok(Trim(ev.line))

\* The iteration without the `continue` of the fallback arm: any extension
\* is returned.
get_file_path_iteration_any_extension(ev) ==
    LET input == read_stdin(ev)
    IN IF input.kind = "Err" THEN [kind |-> "continue"]
       ELSE LET input_file_path == Trim(input.val)
                ext == Extension(input_file_path)
            IN IF ev.exists = "false" THEN [kind |-> "continue"]
               ELSE IF ev.exists = "err" THEN [kind |-> "continue"]
               ELSE IF ~ext.some THEN Panic(101, "Option::unwrap")
               ELSE IF ~ToStr(ext.val).some THEN Panic(101, "Option::unwrap")
               ELSE [kind |-> "return", val |-> input_file_path]

\* One iteration of the loop of get_file_path_from_terminal, main.rs:66-138,
\* on the event stdin delivers: "continue", "return" with the path, or a
\* panic.
get_file_path_iteration(ev) ==
    LET input == read_stdin(ev)
    IN IF input.kind = "Err" THEN [kind |-> "continue"]
       ELSE LET input_file_path == Trim(input.val)
                ext == Extension(input_file_path)
            IN IF ev.exists = "false" THEN [kind |-> "continue"]
               ELSE IF ev.exists = "err" THEN [kind |-> "continue"]
               ELSE IF ~ext.some THEN Panic(101, "Option::unwrap")
               ELSE IF ~ToStr(ext.val).some THEN Panic(101, "Option::unwrap")
               ELSE IF MatchArm(ToStr(ext.val).val) = "_"
               THEN [kind |-> "continue"]
               ELSE [kind |-> "return", val |-> input_file_path]

\* ------------------------------------------------------------------- state
VARIABLES
    pc,         \* where the process is: "prompt", "construct", "match",
                \* "banner", "loop", "done", "panicked"
    input,      \* the lines stdin holds when they are fixed in advance
    pos,        \* how many of them have been read
    last,       \* the event the latest read_line delivered
    file_path,  \* main's file_path (None before it is bound, main.rs:14)
    outcome,    \* what get_dom_from_extension returned, and its calls
    dom,        \* main's dom (main.rs:20)
    out,        \* the lines printed from main.rs:25 on
    visited,    \* the referents looked up by the loop of main.rs:30-33
    idx,        \* the position of that loop in root's children
    panic       \* the panic that ended the process, or None

vars == <<pc, input, pos, last, file_path, outcome, dom, out, visited, idx, panic>>

NoOutcome == Outcome([kind |-> "none"], <<>>, "none")

\* All sequences over S of length at most n.
SeqUpTo(S, n) == UNION {[1..k -> S] : k \in 0..n}

Start ==
    /\ last = Eof
    /\ outcome = NoOutcome
    /\ dom = NoDom
    /\ out = <<>>
    /\ visited = <<>>
    /\ idx = 0
    /\ panic = None

\* main, entered from a terminal that delivers its lines as the user types.
Init ==
    /\ pc = "prompt"
    /\ input = <<>>
    /\ pos = 0
    /\ file_path = None
    /\ Start

\* get_file_path_from_terminal alone, on a stdin whose lines are given.
InitTerminal ==
    /\ pc = "prompt"
    /\ input \in SeqUpTo(Events, MaxLines)
    /\ pos = 0
    /\ file_path = None
    /\ Start

\* The stems and the endings of the paths get_dom_from_extension is given.
DomPaths ==
    {stem \o e :
        stem \in {<<"a">>, <<BadByte>>, <<"a", ".", "a">>},
        e \in {<<>>, <<".", "rbxl">>, <<".", "rbxlx">>, <<".", "rbxm">>,
               <<".", "rbxmx">>, <<".", "txt">>, <<".", "RBXL">>,
               <<".", BadByte>>, <<".">>}}
        \cup {<<>>, <<".", "rbxl">>}

\* get_dom_from_extension alone, on any path.
InitDom ==
    /\ pc = "construct"
    /\ input = <<>>
    /\ pos = 0
    /\ file_path \in {Some(p) : p \in DomPaths}
    /\ Start

\* ----------------------------------------------------------------- actions
\* One iteration of get_file_path_from_terminal (main.rs:14, :66-138) on the
\* event ev: it loops, returns the path to main, or panics.
PromptWith(ev) ==
    LET r == get_file_path_iteration(ev)
    IN /\ last' = ev
       /\ pos' = IF pos < Len(input) THEN pos + 1 ELSE pos
       /\ pc' = CASE r.kind = "return" -> "construct"
                  [] r.kind = "panic" -> "panicked"
                  [] OTHER -> "prompt"
       /\ file_path' = IF r.kind = "return" THEN Some(r.val) ELSE file_path
       /\ panic' = IF r.kind = "panic" THEN Some(r) ELSE panic
       /\ UNCHANGED <<input, outcome, dom, out, visited, idx>>

\* The iteration on whatever the user enters next.
Prompt ==
    /\ pc = "prompt"
    /\ \E ev \in Events \cup {Eof} : PromptWith(ev)

\* The iteration on the next line of a given stdin, end of file after the
\* last.
PromptStream ==
    /\ pc = "prompt"
    /\ PromptWith(IF pos < Len(input) THEN input[pos + 1] ELSE Eof)

\* main.rs:16-20: the call of get_dom_from_extension, on the file as it is.
Construct ==
    /\ pc = "construct"
    /\ \E file \in Files :
         LET o == get_dom_from_extension(file_path.val, file)
         IN /\ outcome' = o
            /\ pc' = IF o.ret.kind = "panic" THEN "panicked" ELSE "match"
            /\ panic' = IF o.ret.kind = "panic" THEN Some(o.ret) ELSE panic
    /\ UNCHANGED <<input, pos, last, file_path, dom, out, visited, idx>>

\* The match of main.rs:20-23 going on with an empty document after an Err.
MatchResultBestEffort ==
    /\ pc = "match"
    /\ dom' = IF outcome.ret.kind = "Ok" THEN outcome.ret.val ELSE NoDom
    /\ pc' = "banner"
    /\ UNCHANGED <<input, pos, last, file_path, outcome, out, visited, idx, panic>>

\* main.rs:20-23: Ok binds dom, Err panics with the message.
MatchResult ==
    /\ pc = "match"
    /\ IF outcome.ret.kind = "Ok"
       THEN /\ dom' = outcome.ret.val
            /\ pc' = "banner"
            /\ panic' = panic
       ELSE /\ dom' = dom
            /\ pc' = "panicked"
            /\ panic' = Some(Panic(22, outcome.ret.why))
    /\ UNCHANGED <<input, pos, last, file_path, outcome, out, visited, idx>>

Dashes == <<"--------------------------------------------------">>

\* main.rs:25-28.
Banner ==
    <<Dashes, <<"DOM successfully constructed.">>,
      <<"Root instances in file:">>, Dashes>>

PrintBanner ==
    /\ pc = "banner"
    /\ out' = out \o Banner
    /\ idx' = 1
    /\ pc' = "loop"
    /\ UNCHANGED <<input, pos, last, file_path, outcome, dom, visited, panic>>

\* The line with the class name after the name.
InstanceLineWithClass(instance) ==
    <<"- ", instance.name, ": ", instance.class_name>>

\* main.rs:32: println!("- {}", instance.name).
InstanceLine(instance) == <<"- ", instance.name>>

\* The loop walking root's children from the last to the first.
PrintInstanceReversed ==
    /\ pc = "loop"
    /\ idx <= Len(dom.children)
    /\ LET referent == dom.children[Len(dom.children) + 1 - idx]
           instance == get_by_ref(dom, referent)
       IN /\ out' = Append(out, InstanceLine(instance.val))
          /\ visited' = Append(visited, referent)
          /\ idx' = idx + 1
          /\ pc' = "loop"
    /\ UNCHANGED <<input, pos, last, file_path, outcome, dom, panic>>

\* main.rs:30-33, one iteration of the loop over root's children.
PrintInstance ==
    /\ pc = "loop"
    /\ idx <= Len(dom.children)
    /\ LET referent == dom.children[idx]
           instance == get_by_ref(dom, referent)
       IN IF instance.some
          THEN /\ out' = Append(out, InstanceLine(instance.val))
               /\ visited' = Append(visited, referent)
               /\ idx' = idx + 1
               /\ pc' = "loop"
               /\ panic' = panic
          ELSE /\ pc' = "panicked"
               /\ panic' = Some(Panic(31, "Option::unwrap"))
               /\ UNCHANGED <<out, visited, idx>>
    /\ UNCHANGED <<input, pos, last, file_path, outcome, dom>>

\* main.rs:30 and :34: the iterator is exhausted and main returns.
LoopExit ==
    /\ pc = "loop"
    /\ idx > Len(dom.children)
    /\ pc' = "done"
    /\ UNCHANGED <<input, pos, last, file_path, outcome, dom, out, visited, idx, panic>>

Next ==
    \/ Prompt
    \/ Construct
    \/ MatchResult
    \/ PrintBanner
    \/ PrintInstance
    \/ LoopExit

Spec == Init /\ [][Next]_vars

NextTerminal == PromptStream

SpecTerminal == InitTerminal /\ [][NextTerminal]_vars

NextDom == Construct

SpecDom == InitDom /\ [][NextDom]_vars

\* A single process runs on: the loop of main.rs:30-33 takes its next step.
FairSpec == Spec /\ WF_vars(PrintInstance) /\ WF_vars(LoopExit)

\* ------------------------------------------------------------------ claims
RecognizedExtensions == {<<"rbxl">>, <<"rbxlx">>, <<"rbxm">>, <<"rbxmx">>}

HasRecognizedExtension(p) ==
    Extension(p).some /\ Extension(p).val \in RecognizedExtensions

\* The decoders a call of get_dom_from_extension ran.
DecodersRun(o) == {o.calls[k].op : k \in DOMAIN o.calls} \ {"File::open"}

Opened(o) == \E k \in DOMAIN o.calls : o.calls[k].op = "File::open"

Returned == outcome # NoOutcome /\ outcome.ret.kind \in {"Ok", "Err"}

\* C1: a path ending in rbxl or rbxm is decoded with the binary decoder, a
\* path ending in rbxlx or rbxmx with the XML decoder and never with the
\* binary one.
C1_DecoderByExtension ==
    Returned =>
        /\ outcome.arm \in {"rbxl", "rbxm"} =>
              DecodersRun(outcome) = {"rbx_binary::from_reader"}
        /\ outcome.arm \in {"rbxlx", "rbxmx"} =>
              DecodersRun(outcome) = {"rbx_xml::from_reader"}

\* C2: once get_dom_from_extension has been called on a path that has an
\* extension other than rbxl, rbxlx, rbxm and rbxmx, it has returned Err and
\* has not opened the file.
C2_RejectedBeforeOpen ==
    (/\ pc # "construct"
     /\ file_path.some
     /\ Extension(file_path.val).some
     /\ ~HasRecognizedExtension(file_path.val))
        => /\ outcome.ret.kind = "Err"
           /\ ~Opened(outcome)

\* C3: the process never panics, whatever the input.
C3_NoPanic == pc # "panicked" /\ panic = None

\* Tree Printer of the specification: depth-first, pre-order, one line per
\* instance with its name and class_name, one tab per level.
Tabs(depth) == [k \in 1..depth |-> "\t"]

RenderLine(d, referent, depth) ==
    Tabs(depth) \o <<"- ", d.inst[referent].name, ": ", d.inst[referent].class_name>>

RECURSIVE RenderAll(_, _, _)
RenderAll(d, referents, depth) ==
    IF referents = <<>> THEN <<>>
    ELSE <<RenderLine(d, Head(referents), depth)>>
            \o RenderAll(d, d.inst[Head(referents)].children, depth + 1)
            \o RenderAll(d, Tail(referents), depth)

\* The lines printed after the banner.
Listing == SubSeq(out, Len(Banner) + 1, Len(out))

C5_NoPartialGraph ==
    /\ out # <<>> => outcome.ret.kind = "Ok"
    /\ visited # <<>> => outcome.ret.kind = "Ok"
    /\ outcome.ret.kind = "Err" =>
          /\ out = <<>>
          /\ pc \in {"match", "panicked"}
          /\ pc = "panicked" => panic = Some(Panic(22, outcome.ret.why))

C5_Witness ==
    /\ pc = "panicked"
    /\ outcome.ret.kind = "Err"
    /\ out = <<>>

\* C6: the path get_file_path_from_terminal returned was found to exist and
\* ends in one of the four extensions, so get_dom_from_extension in main
\* never takes its fallback arm.
C6_ReturnedPathValid ==
    file_path.some =>
        /\ last.exists = "true"
        /\ file_path.val = Trim(last.line)
        /\ HasRecognizedExtension(file_path.val)
        /\ outcome # NoOutcome => outcome.arm \in {"rbxl", "rbxlx", "rbxm", "rbxmx"}

C6_Witness ==
    /\ file_path.some
    /\ outcome # NoOutcome
    /\ outcome.arm = "rbxmx"

\* A line that names an existing file with a recognized extension.
ValidEvent(ev) ==
    /\ IsUtf8(ev.line)
    /\ ev.exists = "true"
    /\ HasRecognizedExtension(Trim(ev.line))

\* C7: after a line that does not name an existing file with a recognized
\* extension, the function has neither returned nor ended the process: it is
\* back at the prompt.
C7_LoopsOnAnyError ==
    ~ValidEvent(last) =>
        /\ pc = "prompt"
        /\ file_path = None
        /\ panic = None

\* C8: the loop looks up root's children in stored order, each lookup
\* succeeds, each prints the line of that instance, none is left out when
\* main is done, and the loop terminates.
C8_Listed ==
    /\ pc \in {"loop", "done"} =>
          /\ visited = SubSeq(dom.children, 1, idx - 1)
          /\ Len(Listing) = Len(visited)
          /\ \A k \in 1..Len(visited) :
                /\ visited[k] \in DOMAIN dom.inst
                /\ Listing[k] = InstanceLine(dom.inst[visited[k]])
    /\ pc = "done" => visited = dom.children
    /\ panic.some => panic.val.line # 31

C8_TopLevelInOrder == [](C8_Listed) /\ ((pc = "loop") ~> (pc = "done"))

C8_Witness ==
    /\ pc = "done"
    /\ visited = <<2, 1>>
    /\ MaxTop + 1 \in DOMAIN dom.inst

\* C9: every Err of get_dom_from_extension carries the one generic message
\* made of the path's display string, whatever the cause.
C9_GenericError ==
    outcome.ret.kind = "Err" =>
        outcome.ret.why = ErrorMessage(Display(file_path.val))

C9_Witness ==
    /\ outcome.ret.kind = "Err"
    /\ outcome.arm = "rbxlx"
    /\ DecodersRun(outcome) # {}
    /\ ~IsUtf8(file_path.val)

\* The index in s of the first line that names an existing file with a
\* recognized extension, 0 when there is none.
FirstValid(s) ==
    LET valid == {k \in 1..Len(s) : ValidEvent(s[k])}
    IN IF valid = {} THEN 0 ELSE CHOOSE k \in valid : \A j \in valid : k <= j

\* C10: on a stdin that holds a line naming an existing file with a
\* recognized extension, the function does not stop before it returns, and
\* what it returns is the path of the first such line, after reading the
\* lines up to it.
C10_ReturnsFirstValid ==
    FirstValid(input) > 0 =>
        /\ pc \in {"prompt", "construct"}
        /\ pos <= FirstValid(input)
        /\ pc = "construct" =>
              /\ pos = FirstValid(input)
              /\ file_path = Some(Trim(input[pos].line))

====
